---- MODULE Spec2Model ----
(***************************************************************************)
(* A model of the fantasy-football e-ink dashboard:                        *)
(*   src/data_setup.py  the collection run (fetch, assemble, persist)      *)
(*   src/x2.py          the statistics engine (FPLAnalyzer), the page      *)
(*                      formatter (FPLDisplay) and the render loop (main)  *)
(*                                                                         *)
(* JSON objects are functions over string keys (TLA+ records); a key that  *)
(* a document may lack is simply outside the DOMAIN.  JSON null is the     *)
(* value None.  A call that raises returns Raise(<exception name>).        *)
(***************************************************************************)
EXTENDS Integers, Sequences, FiniteSets, TLC

VARIABLES
    player_data,    \* FPLAnalyzer.player_data: the bootstrap document
    league_data,    \* FPLAnalyzer.league_data: the league document
    current_gw,     \* FPLAnalyzer.current_gw
    ret,            \* what the last analyzer/formatter call returned (or raised)
    c_pc,           \* data_setup.main: the step the collection run is at
    c_i,            \* data_setup.retrieve_mini_league_data: index of the entry in work
    c_gw,           \* data_setup.main: current_gw
    c_log,          \* the network calls made so far, each with its outcome
    upstream,       \* what the upstream API serves
    bootstrap_data, \* data_setup.main: bootstrap_data
    mini_league,    \* data_setup: league_data / mini_league_data being assembled
    files,          \* the two persisted JSON documents
    pc,             \* x2.main: the statement the render process is at
    fpl_display,    \* x2.main: whether the local fpl_display is bound yet
    pages,          \* x2.main: pages
    page_i,         \* x2.main: index of `page` in the for loop
    epd_last,       \* the last call made on the e-paper driver
    shown,          \* what the panel shows: "blank", "unknown" or a page index
    cause,          \* the exception a handler of x2.main caught, and where it arose
    h_calls         \* the driver calls made since a handler started

cvars == <<c_pc, c_i, c_gw, c_log, upstream, bootstrap_data, mini_league, files>>

rvars == <<pc, fpl_display, pages, page_i, epd_last, shown, cause, h_calls>>

vars == <<player_data, league_data, current_gw, ret, cvars, rvars>>

(***************************************************************************)
(* Bounds of the model                                                     *)
(***************************************************************************)
MaxPlayers == 6     \* longest player / team collection handed to a selector

(***************************************************************************)
(* Python values                                                           *)
(***************************************************************************)
None == [t |-> "None"]

IsNone(v) == v = None

Raise(e) == [t |-> "raise", exc |-> e]

Return(v) == [t |-> "return", val |-> v]

Raised(r) == r.t = "raise"

EmptyDict == <<>>

\* d.get(k, default) on a dict d
DictGet(d, k, default) == IF k \in DOMAIN d THEN d[k] ELSE default

Min(a, b) == IF a <= b THEN a ELSE b

\* seq[:n]
Take(seq, n) == SubSeq(seq, 1, Min(n, Len(seq)))

\* seq of seqs -> seq
RECURSIVE Flatten(_)
Flatten(seqs) == IF Len(seqs) = 0 THEN <<>> ELSE seqs[1] \o Flatten(Tail(seqs))

\* seq[::-1]
Reversed(seq) == [i \in 1..Len(seq) |-> seq[Len(seq) + 1 - i]]

(***************************************************************************)
(* float(text) for the decimal texts the upstream API uses for "form"      *)
(* ("0.0" .. "10.0", one decimal): the value in tenths.                    *)
(***************************************************************************)
Digits == <<"0", "1", "2", "3", "4", "5", "6", "7", "8", "9">>

DigitVal(c) == (CHOOSE i \in 1..10 : Digits[i] = c) - 1

RECURSIVE ParseNat(_)
ParseNat(s) ==
    IF Len(s) = 0 THEN 0
    ELSE 10 * ParseNat(SubSeq(s, 1, Len(s) - 1)) + DigitVal(s[Len(s)])

DotAt(s) == CHOOSE i \in 1..Len(s) : s[i] = "."

Float(s) ==
    ParseNat(SubSeq(s, 1, DotAt(s) - 1)) * 10
        + ParseNat(SubSeq(s, DotAt(s) + 1, DotAt(s) + 1))

(***************************************************************************)
(* sorted(seq, key=..., reverse=True): Python's sort is stable, and with   *)
(* reverse=True elements with equal keys keep their original order.        *)
(* keys[i] is the integer sort key of seq[i]; the sort is computed on the  *)
(* indices of seq.                                                         *)
(***************************************************************************)
RECURSIVE InsertDesc(_, _, _)
InsertDesc(sorted, i, keys) ==
    IF Len(sorted) = 0 THEN <<i>>
    ELSE IF keys[sorted[1]] >= keys[i]
         THEN <<sorted[1]>> \o InsertDesc(Tail(sorted), i, keys)
         ELSE <<i>> \o sorted

RECURSIVE InsertAsc(_, _, _)
InsertAsc(sorted, i, keys) ==
    IF Len(sorted) = 0 THEN <<i>>
    ELSE IF keys[sorted[1]] <= keys[i]
         THEN <<sorted[1]>> \o InsertAsc(Tail(sorted), i, keys)
         ELSE <<i>> \o sorted

RECURSIVE SortIdxAsc(_, _)
SortIdxAsc(n, keys) ==
    IF n = 0 THEN <<>> ELSE InsertAsc(SortIdxAsc(n - 1, keys), n, keys)

RECURSIVE SortIdxDesc(_, _)
SortIdxDesc(n, keys) ==
    IF n = 0 THEN <<>> ELSE InsertDesc(SortIdxDesc(n - 1, keys), n, keys)

\* the bug of sorting ascending and reversing: ties come out in reverse order
SortedDescByReversal(seq, keys) ==
    [i \in 1..Len(seq) |-> seq[Reversed(SortIdxAsc(Len(seq), keys))[i]]]

SortedDesc(seq, keys) ==
    [i \in 1..Len(seq) |-> seq[SortIdxDesc(Len(seq), keys)[i]]]

\* [key(x) for x in seq]
KeysOf(seq, Key(_)) == [i \in 1..Len(seq) |-> Key(seq[i])]

(***************************************************************************)
(* The bootstrap document (player_data.json)                               *)
(***************************************************************************)
PlayerName(id) == "P" \o ToString(id)

TeamName(id) == "T" \o ToString(id)

MkPlayer(id, etype, pts, form, transfers) ==
    [id |-> id, web_name |-> PlayerName(id), team |-> 1, element_type |-> etype,
     event_points |-> pts, form |-> form, transfers_in_event |-> transfers]

MkTeam(id, oh, oa, ah, aa, dh, da) ==
    [id |-> id, name |-> TeamName(id),
     strength_overall_home |-> oh, strength_overall_away |-> oa,
     strength_attack_home |-> ah, strength_attack_away |-> aa,
     strength_defence_home |-> dh, strength_defence_away |-> da]

\* an event with its summary fields; player 9 is in no lookup table
MkEvent(id, cur) ==
    [id |-> id, is_current |-> cur, average_entry_score |-> 50, highest_score |-> 120,
     most_captained |-> 5, most_transferred_in |-> 9, top_element |-> 1,
     top_element_info |-> [id |-> 1, points |-> 5],
     chip_plays |-> <<[chip_name |-> "bboost", num_played |-> 3]>>]

MkBootstrap(events, elements, teams, fixtures) ==
    [events |-> events, elements |-> elements, teams |-> teams,
     fixtures_next_gw |-> fixtures]

(***************************************************************************)
(* FPLAnalyzer: the top-N selectors                                        *)
(***************************************************************************)
TopN == 5

FormKey(p) == Float(p["form"])

TransfersKey(p) == p["transfers_in_event"]

TeamStrengthKey(t) == t["strength_overall_home"] + t["strength_overall_away"]

get_form_players(pd) ==
    LET players == DictGet(pd, "elements", <<>>)
    IN  Take(SortedDesc(players, KeysOf(players, FormKey)), TopN)

get_most_transferred(pd) ==
    LET players == DictGet(pd, "elements", <<>>)
    IN  Take(SortedDesc(players, KeysOf(players, TransfersKey)), TopN)

get_team_strengths(pd) ==
    LET teams == DictGet(pd, "teams", <<>>)
    IN  Take(SortedDesc(teams, KeysOf(teams, TeamStrengthKey)), TopN)

(***************************************************************************)
(* Python true division: the quotient of two integers as a fraction in     *)
(* lowest terms with a positive denominator; dividing by zero raises.      *)
(***************************************************************************)
Abs(x) == IF x < 0 THEN -x ELSE x

RECURSIVE Gcd(_, _)
Gcd(x, y) == IF y = 0 THEN x ELSE Gcd(y, x % y)

Frac(n, d) ==
    LET g == Gcd(Abs(n), Abs(d))
        sgn == IF d < 0 THEN -1 ELSE 1
    IN  [num |-> sgn * (n \div g), den |-> sgn * (d \div g)]

Zero == [num |-> 0, den |-> 1]

TrueDiv(a, b) == IF b = 0 THEN Raise("ZeroDivisionError") ELSE Return(Frac(a, b))

(***************************************************************************)
(* FPLAnalyzer.load_data: the lookup tables.  A dict comprehension keeps,  *)
(* for an id that occurs twice, the last record.                           *)
(***************************************************************************)
LastWithId(seq, id) ==
    seq[CHOOSE i \in 1..Len(seq) :
            seq[i].id = id /\ \A j \in (i + 1)..Len(seq) : seq[j].id # id]

IdsOf(seq) == {seq[i].id : i \in 1..Len(seq)}

teams_by_id(pd) ==
    LET teams == DictGet(pd, "teams", <<>>)
    IN  [id \in IdsOf(teams) |-> LastWithId(teams, id)]

(***************************************************************************)
(* FPLAnalyzer.analyze_fixtures                                            *)
(***************************************************************************)
\* the bug of dividing without the zero guards
fixture_strengths_unguarded(home_team, away_team) ==
    [home |-> TrueDiv(home_team["strength_attack_home"],
                      away_team["strength_defence_away"]),
     away |-> TrueDiv(away_team["strength_attack_away"],
                      home_team["strength_defence_home"])]

\* lines 119-125: the two ratios of one fixture, each a call result
fixture_strengths(home_team, away_team) ==
    [home |-> IF away_team["strength_defence_away"] # 0
              THEN TrueDiv(home_team["strength_attack_home"],
                           away_team["strength_defence_away"])
              ELSE Return(Zero),
     away |-> IF home_team["strength_defence_home"] # 0
              THEN TrueDiv(away_team["strength_attack_away"],
                           home_team["strength_defence_home"])
              ELSE Return(Zero)]

\* [seq[i:i + 2] for i in range(0, len(seq), 2)]
PagesOf2(seq) ==
    [k \in 1..((Len(seq) + 1) \div 2) |->
        SubSeq(seq, 2 * k - 1, Min(2 * k, Len(seq)))]

\* the loop of lines 115-132 over fixtures[i..], analyzed so far in acc
RECURSIVE analyze_from(_, _, _, _)
analyze_from(fixtures, i, tbl, acc) ==
    IF i > Len(fixtures) THEN Return(acc)
    ELSE LET fixture == fixtures[i]
             known == fixture["team_h"] \in DOMAIN tbl /\ fixture["team_a"] \in DOMAIN tbl
         IN  IF ~known THEN analyze_from(fixtures, i + 1, tbl, acc)
             ELSE LET home_team == tbl[fixture["team_h"]]
                      away_team == tbl[fixture["team_a"]]
                      st == fixture_strengths(home_team, away_team)
                  IN  IF Raised(st.home) THEN st.home
                      ELSE IF Raised(st.away) THEN st.away
                      ELSE analyze_from(fixtures, i + 1, tbl,
                               Append(acc, [home_team |-> home_team["name"],
                                            away_team |-> away_team["name"],
                                            home_strength |-> st.home.val,
                                            away_strength |-> st.away.val]))

analyze_fixtures(pd) ==
    LET r == analyze_from(DictGet(pd, "fixtures_next_gw", <<>>), 1, teams_by_id(pd), <<>>)
    IN  IF Raised(r) THEN r ELSE Return(PagesOf2(r.val))

(***************************************************************************)
(* The league document (league_data.json)                                  *)
(***************************************************************************)
MkPick(element, position, is_captain, multiplier) ==
    [element |-> element, position |-> position, is_captain |-> is_captain,
     multiplier |-> multiplier]

MkEntryHistory(points) ==
    [points |-> points, event_transfers |-> 1, value |-> 1003, bank |-> 5]

MkLeague(results) == [standings |-> [results |-> results]]

\* FPLAnalyzer.get_mini_league_standings
get_mini_league_standings(ld) ==
    DictGet(DictGet(ld, "standings", EmptyDict), "results", <<>>)

(***************************************************************************)
(* FPLAnalyzer.load_data: the player lookup tables (lines 76-79)           *)
(***************************************************************************)
player_id_to_name(pd) ==
    LET players == DictGet(pd, "elements", <<>>)
    IN  [id \in IdsOf(players) |-> LastWithId(players, id)["web_name"]]

player_id_to_points(pd) ==
    LET players == DictGet(pd, "elements", <<>>)
    IN  [id \in IdsOf(players) |-> LastWithId(players, id)["event_points"]]

player_id_to_position(pd) ==
    LET players == DictGet(pd, "elements", <<>>)
    IN  [id \in IdsOf(players) |-> LastWithId(players, id)["element_type"]]

(***************************************************************************)
(* Helpers of the per-manager computations                                 *)
(***************************************************************************)
\* next((p for p in picks if p.get('is_captain')), None): <<>> for None,
\* else the one-element sequence of the first flagged pick
FirstCaptain(picks) ==
    LET flagged == SelectSeq(picks, LAMBDA p : DictGet(p, "is_captain", FALSE))
    IN  IF Len(flagged) = 0 THEN <<>> ELSE <<flagged[1]>>

\* max(seq, key=...): the first element whose key is the largest
FirstMax(seq, keys) ==
    seq[CHOOSE i \in 1..Len(seq) :
            /\ \A j \in 1..Len(seq) : keys[j] <= keys[i]
            /\ \A j \in 1..(i - 1) : keys[j] < keys[i]]

\* sum(1 for x in seq if Test(x))
CountIf(seq, Test(_)) == Cardinality({i \in 1..Len(seq) : Test(seq[i])})

\* "{}-{}-{}".format(d, m, f)
Format3(d, m, f) == ToString(d) \o "-" \o ToString(m) \o "-" \o ToString(f)

StartingSlots == 11

\* the bug of counting the bench as well
starting_players_unfiltered(picks) == picks

\* line 163 (and 226): [p for p in picks if p['position'] <= 11]
starting_players(picks) == SelectSeq(picks, LAMBDA p : p["position"] <= StartingSlots)

\* the bug of ignoring the captain's multiplier
captain_points_unmultiplied(captain_pick, points) ==
    IF Len(captain_pick) = 0 THEN 0
    ELSE DictGet(points, captain_pick[1]["element"], 0)

\* lines 149-152 (and 218-222): captain_pick is <<>> for None.  None is a key
\* of no lookup table, so .get(None, default) is the default.
captain_points_of(captain_pick, points) ==
    IF Len(captain_pick) = 0 THEN 0 * 1
    ELSE DictGet(points, captain_pick[1]["element"], 0) * captain_pick[1]["multiplier"]

(***************************************************************************)
(* FPLAnalyzer.get_manager_details.  x.get(...) on None raises             *)
(* AttributeError.                                                         *)
(***************************************************************************)
get_manager_details(manager_data, gw, pd) ==
    LET all_gw == DictGet(manager_data, "gameweek_data", EmptyDict)
    IN  IF IsNone(all_gw) THEN Raise("AttributeError")
        ELSE
        LET gw_data == DictGet(all_gw, ToString(gw), EmptyDict)
        IN  IF IsNone(gw_data) THEN Raise("AttributeError")
            ELSE
            LET entry_history == DictGet(gw_data, "entry_history", EmptyDict)
                picks == DictGet(gw_data, "picks", <<>>)
                names == player_id_to_name(pd)
                points == player_id_to_points(pd)
                positions == player_id_to_position(pd)
                captain_pick == FirstCaptain(picks)
                captain_name ==
                    IF Len(captain_pick) = 0 THEN "Unknown"
                    ELSE DictGet(names, captain_pick[1]["element"], "Unknown")
                top_scorer ==
                    FirstMax(picks, [i \in 1..Len(picks) |->
                                        DictGet(points, picks[i]["element"], 0)])
                starters == starting_players(picks)
                formation ==
                    Format3(
                        CountIf(starters,
                                LAMBDA pick : DictGet(positions, pick["element"], 0) = 2),
                        CountIf(starters,
                                LAMBDA pick : DictGet(positions, pick["element"], 0) = 3),
                        CountIf(starters,
                                LAMBDA pick : DictGet(positions, pick["element"], 0) = 4))
            IN  IF IsNone(entry_history) THEN Raise("AttributeError")
                ELSE Return(
                    [points |-> DictGet(entry_history, "points", 0),
                     captain_name |-> captain_name,
                     captain_points |-> captain_points_of(captain_pick, points),
                     transfers |-> DictGet(entry_history, "event_transfers", 0),
                     team_value |-> Frac(DictGet(entry_history, "value", 0), 10),
                     bank |-> Frac(DictGet(entry_history, "bank", 0), 10),
                     top_scorer_name |->
                         IF Len(picks) > 0
                         THEN DictGet(names, top_scorer["element"], "Unknown")
                         ELSE "Unknown",
                     top_scorer_points |->
                         IF Len(picks) > 0
                         THEN DictGet(points, top_scorer["element"], 0)
                         ELSE 0,
                     formation |-> formation,
                     chip_used |-> DictGet(gw_data, "active_chip", "None"),
                     rank_movement |-> DictGet(manager_data, "rank_sort", 0)
                                        - DictGet(manager_data, "last_rank", 0),
                     manager_name |-> manager_data["entry_name"],
                     total_points |-> manager_data["total"]])

(***************************************************************************)
(* calculate_gw_average.  `'current' in manager['history']` raises         *)
(* TypeError when the history is None.                                     *)
(***************************************************************************)
RECURSIVE gw_average_from(_, _, _, _, _)
gw_average_from(results, i, gw, total_points, count) ==
    IF i > Len(results)
    THEN IF count # 0 THEN TrueDiv(total_points, count) ELSE Return(Zero)
    ELSE LET manager == results[i]
         IN  IF "history" \notin DOMAIN manager
             THEN gw_average_from(results, i + 1, gw, total_points, count)
             ELSE IF IsNone(manager["history"]) THEN Raise("TypeError")
             ELSE IF /\ "current" \in DOMAIN manager["history"]
                     /\ Len(manager["history"]["current"]) > gw - 1
             THEN gw_average_from(results, i + 1, gw,
                      total_points + manager["history"]["current"][gw]["points"],
                      count + 1)
             ELSE gw_average_from(results, i + 1, gw, total_points, count)

calculate_gw_average(mini_league_data, gw) ==
    gw_average_from(mini_league_data["standings"]["results"], 1, gw, 0, 0)

(***************************************************************************)
(* FPLAnalyzer.get_my_team_analysis                                        *)
(***************************************************************************)
MyTeamName == "404error.log"

\* sum(m['total'] for m in standings)
RECURSIVE SumTotals(_)
SumTotals(standings) ==
    IF Len(standings) = 0 THEN 0 ELSE standings[1]["total"] + SumTotals(Tail(standings))

\* next(i for i, m in enumerate(seq, start=1) if m['entry_name'] == name)
FirstNamed(seq, name) ==
    CHOOSE i \in 1..Len(seq) :
        seq[i]["entry_name"] = name /\ \A j \in 1..(i - 1) : seq[j]["entry_name"] # name

\* the bug of a rate against the best raw score, not twice it
success_rate_undoubled(captain_points, best_player_points) ==
    IF best_player_points > 0
    THEN Frac(captain_points * 100, best_player_points)
    ELSE Zero

\* lines 232-235: (captain_points / best_possible_captain_points) * 100
success_rate(captain_points, best_player_points) ==
    LET best_possible_captain_points == best_player_points * 2
    IN  IF best_possible_captain_points > 0
        THEN Frac(captain_points * 100, best_possible_captain_points)
        ELSE Zero

\* lines 224-230: the highest raw points in the starting XI
best_starter_points(picks, points) ==
    IF Len(picks) > 0
    THEN LET starters == starting_players(picks)
         IN  IF Len(starters) = 0 THEN 0
             ELSE DictGet(points,
                          FirstMax(starters,
                                   [i \in 1..Len(starters) |->
                                       DictGet(points, starters[i]["element"], 0)])["element"],
                          0)
    ELSE 0

\* lines 197-249, for the located entry my_team
my_team_analysis(my_team, standings, ld, gw, pd) ==
    LET totals == [i \in 1..Len(standings) |-> standings[i]["total"]]
        leader_points == FirstMax(standings, totals)["total"]
        sorted_by_points == SortedDesc(standings, totals)
        position == FirstNamed(sorted_by_points, MyTeamName)
        gw_avg == calculate_gw_average(ld, gw)
        all_gw == DictGet(my_team, "gameweek_data", EmptyDict)
    IN  IF Raised(gw_avg) THEN gw_avg
        ELSE IF IsNone(all_gw) THEN Raise("AttributeError")
        ELSE
        LET gw_data == DictGet(all_gw, ToString(gw), EmptyDict)
        IN  IF IsNone(gw_data) THEN Raise("AttributeError")
            ELSE
            LET picks == DictGet(gw_data, "picks", <<>>)
                entry_history == DictGet(gw_data, "entry_history", EmptyDict)
                points == player_id_to_points(pd)
                captain_points == captain_points_of(FirstCaptain(picks), points)
                best_player_points == best_starter_points(picks, points)
            IN  IF IsNone(entry_history) THEN Raise("AttributeError")
                ELSE Return(
                    [my_team_name |-> MyTeamName,
                     my_points |-> my_team["total"],
                     leader_points |-> leader_points,
                     avg_points_total |-> Frac(SumTotals(standings), Len(standings)),
                     position |-> position,
                     num_teams |-> Len(standings),
                     my_gw_points |-> DictGet(entry_history, "points", 0),
                     league_gw_average |-> gw_avg.val,
                     captain_points |-> captain_points,
                     best_possible_captain_points |-> best_player_points * 2,
                     captain_success_rate |->
                         success_rate(captain_points, best_player_points)])

\* the bug of going on without the not-found check: None['total'] raises
get_my_team_analysis_unchecked(ld, gw, pd) ==
    LET standings == get_mini_league_standings(ld)
        named == SelectSeq(standings, LAMBDA m : m["entry_name"] = MyTeamName)
    IN  IF Len(named) = 0 THEN Raise("TypeError")
        ELSE my_team_analysis(named[1], standings, ld, gw, pd)

get_my_team_analysis(ld, gw, pd) ==
    LET standings == get_mini_league_standings(ld)
        named == SelectSeq(standings, LAMBDA m : m["entry_name"] = MyTeamName)
    IN  IF Len(named) = 0 THEN Return(None)
        ELSE my_team_analysis(named[1], standings, ld, gw, pd)

(***************************************************************************)
(* FPLDisplay.create_my_team_page: a page is its title and its text lines. *)
(* An f-string field with a float format is kept as the pair of the format *)
(* and the value.                                                          *)
(***************************************************************************)
Fmt(spec, value) == [fmt |-> spec, value |-> value]

MkPage(title, lines) == [title |-> title, lines |-> lines]

\* a - b for an integer a and a fraction b
IntMinusFrac(a, b) == Frac(a * b.den - b.num, b.den)

NotFoundLines == <<"404error.log not found", "in this league.">>

AnalysisLines(analysis) ==
    <<<<"Team: ", analysis["my_team_name"]>>,
      <<"Total Points: ", analysis["my_points"]>>,
      <<"League Pos: ", analysis["position"], " of ", analysis["num_teams"]>>,
      <<"Leader Diff: ", analysis["leader_points"] - analysis["my_points"]>>,
      <<"vs. Average: ",
        Fmt("+.1f", IntMinusFrac(analysis["my_points"], analysis["avg_points_total"]))>>,
      "",
      "Weekly Analysis:",
      <<"  This GW's Pts: ", analysis["my_gw_points"]>>,
      <<"  League GW Avg: ", Fmt(".1f", analysis["league_gw_average"])>>,
      <<"  vs. GW Avg: ",
        Fmt("+.1f", IntMinusFrac(analysis["my_gw_points"], analysis["league_gw_average"]))>>,
      "",
      "Captaincy Analysis:",
      <<"  Actual Captain: ", analysis["captain_points"]>>,
      <<"  Best Captain: ", analysis["best_possible_captain_points"]>>,
      <<"  Success Rate: ", Fmt(".1f", analysis["captain_success_rate"]), "%">>>>

create_my_team_page(ld, gw, pd) ==
    LET analysis == get_my_team_analysis(ld, gw, pd)
    IN  IF Raised(analysis) THEN analysis
        ELSE IF IsNone(analysis.val)
        THEN Return(MkPage("My Team Analysis", NotFoundLines))
        ELSE Return(MkPage("My Team Analysis", AnalysisLines(analysis.val)))

(***************************************************************************)
(* FPLDisplay: the other pages.  A text line made by an f-string is the    *)
(* tuple of its literal parts and field values; str(None) is "None".       *)
(***************************************************************************)
\* FPLAnalyzer.current_gw_event: <<>> for None
current_gw_event(pd) ==
    LET flagged == SelectSeq(pd["events"], LAMBDA ev : DictGet(ev, "is_current", FALSE))
    IN  IF Len(flagged) = 0 THEN <<>> ELSE <<flagged[1]>>

get_chip_usage(pd) ==
    LET event == current_gw_event(pd)
    IN  IF Len(event) = 0 \/ "chip_plays" \notin DOMAIN event[1] THEN <<>>
        ELSE event[1]["chip_plays"]

create_basic_insights_page(pd, gw) ==
    LET event == current_gw_event(pd)[1]
        names == player_id_to_name(pd)
    IN  MkPage(<<"GW", gw, " Insights">>,
               <<<<"Average: ", event["average_entry_score"]>>,
                 <<"Highest: ", event["highest_score"]>>,
                 <<"Most Cap: ", DictGet(names, event["most_captained"], "None")>>,
                 <<"Most Trans: ", DictGet(names, event["most_transferred_in"], "None")>>,
                 <<"Top Player: ",
                   IF "top_element" \in DOMAIN event
                   THEN DictGet(names, event["top_element"], "None") ELSE "None",
                   " (",
                   DictGet(DictGet(event, "top_element_info", EmptyDict), "points", 0),
                   ")">>>>)

create_chips_page(pd) ==
    LET chips == get_chip_usage(pd)
    IN  MkPage("Chips Used",
               [i \in 1..Len(chips) |->
                   <<chips[i]["chip_name"], ": ", chips[i]["num_played"]>>])

\* analyzer.teams_by_id.get(player['team'], {}).get('name', '?')
team_name_of(pd, player) ==
    DictGet(DictGet(teams_by_id(pd), player["team"], EmptyDict), "name", "?")

create_form_page(pd) ==
    LET top == get_form_players(pd)
    IN  MkPage("Top Form Players",
               [i \in 1..Len(top) |->
                   <<top[i]["web_name"], " (", team_name_of(pd, top[i]), "): ",
                     top[i]["form"]>>])

create_transfers_page(pd) ==
    LET top == get_most_transferred(pd)
    IN  MkPage("Most Transferred In",
               [i \in 1..Len(top) |->
                   <<top[i]["web_name"], " (", team_name_of(pd, top[i]), "): ",
                     top[i]["transfers_in_event"]>>])

create_team_strength_page(pd) ==
    LET top == get_team_strengths(pd)
    IN  MkPage("Team Strength",
               [i \in 1..Len(top) |->
                   <<top[i]["name"], ": ",
                     top[i]["strength_overall_home"] + top[i]["strength_overall_away"]>>])

create_manager_page(manager_details) ==
    MkPage(<<"Manager: ", manager_details["manager_name"]>>,
           <<<<"Points: ", manager_details["points"]>>,
             <<"Captain: ", manager_details["captain_name"], " (",
               manager_details["captain_points"], ")">>,
             <<"Transfers: ", manager_details["transfers"]>>,
             <<"Team Value: ", Fmt(".1f", manager_details["team_value"])>>,
             <<"Top Scorer: ", manager_details["top_scorer_name"], " (",
               manager_details["top_scorer_points"], ")">>,
             <<"Formation: ", manager_details["formation"]>>,
             <<"Chip: ", manager_details["chip_used"]>>,
             <<"Rank Move: ", manager_details["rank_movement"]>>,
             <<"Total Points: ", manager_details["total_points"]>>>>)

\* the four lines of one fixture (lines 435-448)
FixtureLines(fixture) ==
    <<<<fixture["home_team"], " (H) vs">>,
      <<fixture["away_team"], " (A)">>,
      <<fixture["home_team"], " Atk: ", Fmt(".2f", fixture["home_strength"])>>,
      <<fixture["away_team"], " Atk: ", Fmt(".2f", fixture["away_strength"])>>>>

create_fixtures_pages(pd, gw) ==
    LET fixture_pages == analyze_fixtures(pd)
    IN  IF Raised(fixture_pages) THEN fixture_pages
        ELSE Return(
            [i \in 1..Len(fixture_pages.val) |->
                MkPage(<<"GW", gw + 1, " Fixtures (", i, "/", Len(fixture_pages.val), ")">>,
                       Flatten([k \in 1..Len(fixture_pages.val[i]) |->
                                   FixtureLines(fixture_pages.val[i][k])]))])

(***************************************************************************)
(* x2.main, lines 517-546: the page list                                   *)
(***************************************************************************)
\* the loop of lines 537-539 over standings[i..]
RECURSIVE manager_pages_from(_, _, _, _, _)
manager_pages_from(standings, i, gw, pd, acc) ==
    IF i > Len(standings) THEN Return(acc)
    ELSE LET md == get_manager_details(standings[i], gw, pd)
         IN  IF Raised(md) THEN md
             ELSE manager_pages_from(standings, i + 1, gw, pd,
                                     Append(acc, create_manager_page(md.val)))

build_pages(pd, ld, gw) ==
    LET first == <<create_basic_insights_page(pd, gw), create_chips_page(pd),
                   create_form_page(pd), create_transfers_page(pd),
                   create_team_strength_page(pd)>>
        managers == manager_pages_from(get_mini_league_standings(ld), 1, gw, pd, <<>>)
        mine == create_my_team_page(ld, gw, pd)
        fixtures == create_fixtures_pages(pd, gw)
    IN  IF Raised(managers) THEN managers
        ELSE IF Raised(mine) THEN mine
        ELSE IF Raised(fixtures) THEN fixtures
        ELSE Return(first \o managers.val \o <<mine.val>> \o fixtures.val)

(***************************************************************************)
(* No collection run: the state of data_setup.main in the specifications   *)
(* of the analysis functions                                               *)
(***************************************************************************)
Stale == [t |-> "stale"]

OldFiles == [player_data_json |-> Stale, league_data_json |-> Stale]

CollectIdle ==
    /\ c_pc = "idle"
    /\ c_i = 0
    /\ c_gw = 0
    /\ c_log = <<>>
    /\ upstream = EmptyDict
    /\ bootstrap_data = None
    /\ mini_league = None
    /\ files = OldFiles

(***************************************************************************)
(* No render process: the state of x2.main in the other specifications     *)
(***************************************************************************)
NoCause == [exc |-> "none", at |-> "none"]

RenderIdle ==
    /\ pc = "idle"
    /\ fpl_display = "unbound"
    /\ pages = <<>>
    /\ page_i = 0
    /\ epd_last = "none"
    /\ shown = "unknown"
    /\ cause = NoCause
    /\ h_calls = <<>>

(***************************************************************************)
(* SpecTopN: the selectors applied to bounded player and team collections  *)
(***************************************************************************)
\* (form text, transfers-in) of a player: "9.5" sorts after "10.0" as a number
\* and before it as a text
PlayerStats ==
    {[form |-> <<"9", ".", "5">>, transfers |-> 0],
     [form |-> <<"1", "0", ".", "0">>, transfers |-> 3],
     [form |-> <<"1", "0", ".", "0">>, transfers |-> 0]}

\* (home, away) overall strength of a team: two different pairs have equal sums
TeamStats ==
    {[home |-> 1, away |-> 2], [home |-> 2, away |-> 1], [home |-> 2, away |-> 2]}

PlayerLists ==
    UNION {{[i \in 1..n |-> MkPlayer(i, 3, 0, st[i].form, st[i].transfers)] :
                st \in [1..n -> PlayerStats]} : n \in 0..MaxPlayers}

TeamLists ==
    UNION {{[i \in 1..n |-> MkTeam(i, st[i].home, st[i].away, 1, 1, 1, 1)] :
                st \in [1..n -> TeamStats]} : n \in 0..MaxPlayers}

NoCall == [op |-> "none"]

InitTopN ==
    /\ \/ \E ps \in PlayerLists :
             player_data = MkBootstrap(<<MkEvent(1, TRUE)>>, ps, <<>>, <<>>)
       \/ \E ts \in TeamLists :
             player_data = MkBootstrap(<<MkEvent(1, TRUE)>>, <<>>, ts, <<>>)
    /\ league_data = <<>>
    /\ current_gw = 1
    /\ ret = NoCall
    /\ CollectIdle
    /\ RenderIdle

GetFormPlayers ==
    /\ ret = NoCall
    /\ ret' = [op |-> "get_form_players", r |-> Return(get_form_players(player_data))]
    /\ UNCHANGED <<player_data, league_data, current_gw, cvars, rvars>>

GetMostTransferred ==
    /\ ret = NoCall
    /\ ret' = [op |-> "get_most_transferred",
               r |-> Return(get_most_transferred(player_data))]
    /\ UNCHANGED <<player_data, league_data, current_gw, cvars, rvars>>

GetTeamStrengths ==
    /\ ret = NoCall
    /\ ret' = [op |-> "get_team_strengths",
               r |-> Return(get_team_strengths(player_data))]
    /\ UNCHANGED <<player_data, league_data, current_gw, cvars, rvars>>

NextTopN == GetFormPlayers \/ GetMostTransferred \/ GetTeamStrengths

SpecTopN == InitTopN /\ [][NextTopN]_vars

\* C1: each selector returns exactly min(5, N) entries of its collection, in
\* descending order of the selector's numeric field, entries with equal field
\* values in their input order (the id of an entry is its input index).
SelectorContract(input, out, Key(_)) ==
    /\ Len(out) = Min(5, Len(input))
    /\ \A i \in 1..Len(out) : out[i].id \in 1..Len(input) /\ out[i] = input[out[i].id]
    /\ \A i, j \in 1..Len(out) :
          i < j => /\ Key(out[i]) >= Key(out[j])
                   /\ Key(out[i]) = Key(out[j]) => out[i].id < out[j].id

\* C1: get_form_players, get_most_transferred and get_team_strengths return
\* exactly min(5, N) entries, descending by form (as a number), transfers-in
\* and home+away overall strength respectively, ties in input order.
C1_TopNSorted ==
    /\ ret.op = "get_form_players" =>
          SelectorContract(player_data.elements, ret.r.val, FormKey)
    /\ ret.op = "get_most_transferred" =>
          SelectorContract(player_data.elements, ret.r.val, TransfersKey)
    /\ ret.op = "get_team_strengths" =>
          SelectorContract(player_data.teams, ret.r.val, TeamStrengthKey)

\* a collection of more than 5 players with tied forms has been ranked
C1_Witness ==
    /\ ret.op = "get_form_players"
    /\ Len(player_data.elements) > 5
    /\ Len(ret.r.val) = 5
    /\ \E i, j \in 1..5 : i < j /\ FormKey(ret.r.val[i]) = FormKey(ret.r.val[j])
    /\ \E i, j \in 1..5 : FormKey(ret.r.val[i]) > FormKey(ret.r.val[j])

(***************************************************************************)
(* SpecFixtures: analyze_fixtures applied to bounded team tables and       *)
(* next-gameweek fixture lists                                             *)
(***************************************************************************)
MaxFixtures == 3    \* longest next-gameweek fixture list

\* directional ratings of a team; a defence rating may be 0
FixtureTeamStats ==
    [ah : {1, 3}, dh : {0, 2}, da : {0, 2, 4}]

\* team 3 is in no team table
FixturePairs ==
    {[team_h |-> 1, team_a |-> 2], [team_h |-> 2, team_a |-> 1],
     [team_h |-> 1, team_a |-> 3]}

FixtureLists == UNION {[1..n -> FixturePairs] : n \in 0..MaxFixtures}

FixtureTeamTables ==
    {[i \in 1..2 |-> MkTeam(i, 1, 1, st[i].ah, 1, st[i].dh, st[i].da)] :
        st \in [1..2 -> FixtureTeamStats]}

InitFixtures ==
    /\ \E ts \in FixtureTeamTables, fs \in FixtureLists :
          player_data = MkBootstrap(<<MkEvent(1, TRUE)>>, <<>>, ts, fs)
    /\ league_data = <<>>
    /\ current_gw = 1
    /\ ret = NoCall
    /\ CollectIdle
    /\ RenderIdle

AnalyzeFixtures ==
    /\ ret = NoCall
    /\ ret' = [op |-> "analyze_fixtures", r |-> analyze_fixtures(player_data)]
    /\ UNCHANGED <<player_data, league_data, current_gw, cvars, rvars>>

NextFixtures == AnalyzeFixtures

SpecFixtures == InitFixtures /\ [][NextFixtures]_vars

TeamNamed(pd, name) ==
    CHOOSE t \in {pd.teams[i] : i \in 1..Len(pd.teams)} : t.name = name

\* q is exactly a / b
IsQuotient(q, a, b) == q.den > 0 /\ q.num * b = a * q.den

\* C2: analyze_fixtures never raises; in every analysed fixture home_strength
\* is exactly 0 when the away team's away-defence rating is 0 and otherwise
\* home attack / away defence, and away_strength is exactly 0 when the home
\* team's home-defence rating is 0 and otherwise away attack / home defence.
C2_FixtureStrength ==
    ret.op = "analyze_fixtures" =>
        /\ ~Raised(ret.r)
        /\ \A e \in {Flatten(ret.r.val)[i] : i \in 1..Len(Flatten(ret.r.val))} :
              LET h == TeamNamed(player_data, e.home_team)
                  a == TeamNamed(player_data, e.away_team)
              IN  /\ IF a.strength_defence_away = 0 THEN e.home_strength = Zero
                     ELSE IsQuotient(e.home_strength, h.strength_attack_home,
                                     a.strength_defence_away)
                  /\ IF h.strength_defence_home = 0 THEN e.away_strength = Zero
                     ELSE IsQuotient(e.away_strength, a.strength_attack_away,
                                     h.strength_defence_home)

\* a fixture was analysed whose away side has away-defence 0 while the home
\* side's home-defence is not 0: one ratio is the guarded 0, the other a quotient
C2_Witness ==
    /\ ret.op = "analyze_fixtures"
    /\ ~Raised(ret.r)
    /\ \E i \in 1..Len(Flatten(ret.r.val)) :
          LET e == Flatten(ret.r.val)[i]
          IN  /\ TeamNamed(player_data, e.away_team).strength_defence_away = 0
              /\ TeamNamed(player_data, e.home_team).strength_defence_home # 0
              /\ e.home_strength = Zero
              /\ e.away_strength # Zero

(***************************************************************************)
(* SpecManager: get_manager_details applied to one manager entry whose     *)
(* per-gameweek record is complete, incomplete, missing or null            *)
(***************************************************************************)
MaxPicks == 15      \* longest pick list (a squad has 15 slots)

\* players 1..5 of the bootstrap document; id 9 is in no lookup table
SquadPlayers ==
    <<MkPlayer(1, 1, 5, <<"0", ".", "0">>, 0),
      MkPlayer(2, 2, 6, <<"0", ".", "0">>, 0),
      MkPlayer(3, 3, 6, <<"0", ".", "0">>, 0),
      MkPlayer(4, 4, -1, <<"0", ".", "0">>, 0),
      MkPlayer(5, 3, 8, <<"0", ".", "0">>, 0)>>

SquadDoc == MkBootstrap(<<MkEvent(7, TRUE)>>, SquadPlayers, <<>>, <<>>)

PickedIds == {1, 2, 3, 4, 5, 9}

\* slot i holds player pattern[i mod 2]; slot cap (0: nobody) is the captain
SquadPicks(n, pattern, cap, mult) ==
    [i \in 1..n |->
        MkPick(pattern[((i - 1) % Len(pattern)) + 1], i, i = cap,
               IF i = cap THEN mult ELSE IF i <= 11 THEN 1 ELSE 0)]

PickLists ==
    UNION {{SquadPicks(n, pattern, cap, mult) :
                pattern \in [1..2 -> PickedIds],
                cap \in {0, 1, 2, 12} \cap (0..n),
                mult \in 0..3} : n \in 0..MaxPicks}

\* the pick list in slot order or in reverse slot order
PickOrders == PickLists \cup {Reversed(ps) : ps \in PickLists}

FullGwData(picks) ==
    [picks |-> picks, entry_history |-> MkEntryHistory(55), active_chip |-> "bboost"]

\* the ways the record of gameweek gw can be missing or incomplete
IncompleteGwDicts(gw) ==
    {EmptyDict,
     [k \in {ToString(gw + 1)} |-> FullGwData(SquadPicks(2, <<2, 3>>, 1, 2))],
     [k \in {ToString(gw)} |-> EmptyDict],
     [k \in {ToString(gw)} |-> [picks |-> SquadPicks(2, <<2, 3>>, 1, 2)]],
     [k \in {ToString(gw)} |-> [entry_history |-> MkEntryHistory(55)]],
     [k \in {ToString(gw)} |-> None]}

MkEntry(name, total) ==
    [entry |-> 1, entry_name |-> name, total |-> total, rank_sort |-> 2, last_rank |-> 3]

\* entry[key] = value
WithField(entry, key, value) ==
    [k \in DOMAIN entry \cup {key} |-> IF k = key THEN value ELSE entry[k]]

WithGw(entry, gwdict) == WithField(entry, "gameweek_data", gwdict)

ManagerEntries(gw) ==
    {MkEntry("A", 100)}
    \cup {WithGw(MkEntry("A", 100), d) : d \in IncompleteGwDicts(gw)}
    \cup {WithGw(MkEntry("A", 100), [k \in {ToString(gw)} |-> FullGwData(ps)]) :
            ps \in PickOrders}

InitManager ==
    /\ player_data = SquadDoc
    /\ current_gw \in {7, 12}
    /\ \E e \in ManagerEntries(current_gw) : league_data = MkLeague(<<e>>)
    /\ ret = NoCall
    /\ CollectIdle
    /\ RenderIdle

GetManagerDetails ==
    /\ ret = NoCall
    /\ \E i \in 1..Len(get_mini_league_standings(league_data)) :
          ret' = [op |-> "get_manager_details", arg |-> i,
                  r |-> get_manager_details(get_mini_league_standings(league_data)[i],
                                            current_gw, player_data)]
    /\ UNCHANGED <<player_data, league_data, current_gw, cvars, rvars>>

NextManager == GetManagerDetails

SpecManager == InitManager /\ [][NextManager]_vars

\* the manager entry the last get_manager_details call was given
ArgEntry == get_mini_league_standings(league_data)[ret.arg]

\* the entry stores, under the current gameweek, a record that has a pick list
HasPickList(e) ==
    /\ "gameweek_data" \in DOMAIN e
    /\ ToString(current_gw) \in DOMAIN e.gameweek_data
    /\ ~IsNone(e.gameweek_data[ToString(current_gw)])
    /\ "picks" \in DOMAIN e.gameweek_data[ToString(current_gw)]

PicksOf(e) == e.gameweek_data[ToString(current_gw)].picks

\* current-event points of a player id, 0 for an id the bootstrap lacks
PointsOfId(id) ==
    IF \E i \in 1..Len(player_data.elements) : player_data.elements[i].id = id
    THEN (CHOOSE p \in {player_data.elements[i] : i \in 1..Len(player_data.elements)} :
            p.id = id).event_points
    ELSE 0

TypeOfId(id) ==
    IF \E i \in 1..Len(player_data.elements) : player_data.elements[i].id = id
    THEN (CHOOSE p \in {player_data.elements[i] : i \in 1..Len(player_data.elements)} :
            p.id = id).element_type
    ELSE 0

CaptainSlots(picks) == {i \in 1..Len(picks) : picks[i].is_captain}

\* C3: for an entry with a pick list, get_manager_details returns
\* captain_points = (current-event points of the captain-flagged pick's player)
\* x (that pick's multiplier), and 0 when no pick is flagged as captain.
C3_CaptainPoints ==
    (ret.op = "get_manager_details" /\ HasPickList(ArgEntry)) =>
        /\ ~Raised(ret.r)
        /\ \A i \in CaptainSlots(PicksOf(ArgEntry)) :
              ret.r.val.captain_points =
                  PointsOfId(PicksOf(ArgEntry)[i].element) * PicksOf(ArgEntry)[i].multiplier
        /\ CaptainSlots(PicksOf(ArgEntry)) = {} => ret.r.val.captain_points = 0

\* a captain with non-zero points and a multiplier of 2 or 3 has been summarised
C3_Witness ==
    /\ ret.op = "get_manager_details"
    /\ HasPickList(ArgEntry)
    /\ \E i \in CaptainSlots(PicksOf(ArgEntry)) :
          /\ PicksOf(ArgEntry)[i].multiplier >= 2
          /\ PointsOfId(PicksOf(ArgEntry)[i].element) # 0
          /\ ret.r.val.captain_points =
                PointsOfId(PicksOf(ArgEntry)[i].element) * PicksOf(ArgEntry)[i].multiplier

\* picks in a starting slot whose player has position code c
StartersOfType(picks, c) ==
    Cardinality({i \in 1..Len(picks) :
                    picks[i].position <= 11 /\ TypeOfId(picks[i].element) = c})

\* C4: the formation string is "D-M-F" where D, M, F count exactly the picks
\* with slot position <= 11 whose player has position code 2, 3, 4, and
\* D + M + F <= 11.
C4_Formation ==
    (ret.op = "get_manager_details" /\ HasPickList(ArgEntry)) =>
        /\ ~Raised(ret.r)
        /\ ret.r.val.formation =
              Format3(StartersOfType(PicksOf(ArgEntry), 2),
                      StartersOfType(PicksOf(ArgEntry), 3),
                      StartersOfType(PicksOf(ArgEntry), 4))
        /\ StartersOfType(PicksOf(ArgEntry), 2) + StartersOfType(PicksOf(ArgEntry), 3)
              + StartersOfType(PicksOf(ArgEntry), 4) <= 11

\* a full 15-slot squad of defenders and midfielders: the bench holds outfield
\* players that must not be counted
C4_Witness ==
    /\ ret.op = "get_manager_details"
    /\ HasPickList(ArgEntry)
    /\ Len(PicksOf(ArgEntry)) = 15
    /\ \A i \in 1..15 : TypeOfId(PicksOf(ArgEntry)[i].element) \in {2, 3}
    /\ ret.r.val.formation = "6-5-0"

\* the record the entry stores for the current gameweek: <<>> when there is
\* none (no gameweek_data key, or no record under the current gameweek)
StoredGw(e) ==
    IF "gameweek_data" \in DOMAIN e /\ ToString(current_gw) \in DOMAIN e.gameweek_data
    THEN <<e.gameweek_data[ToString(current_gw)]>>
    ELSE <<>>

\* no pick list is stored: no record, a null record, or a record without picks
LacksPicks(e) ==
    \/ StoredGw(e) = <<>>
    \/ IsNone(StoredGw(e)[1])
    \/ "picks" \notin DOMAIN StoredGw(e)[1]

LacksEntryHistory(e) ==
    \/ StoredGw(e) = <<>>
    \/ IsNone(StoredGw(e)[1])
    \/ "entry_history" \notin DOMAIN StoredGw(e)[1]

\* C8 (as claimed): for an entry whose per-gameweek data is missing, incomplete
\* or null, get_manager_details never raises and returns the placeholders:
\* points 0 without an entry_history; captain 'Unknown' with 0 points, top
\* scorer 'Unknown' with 0 points and formation "0-0-0" without a pick list.
C8_MissingDataTolerated ==
    ret.op = "get_manager_details" =>
        /\ (LacksPicks(ArgEntry) \/ LacksEntryHistory(ArgEntry)) => ~Raised(ret.r)
        /\ (LacksEntryHistory(ArgEntry) /\ ~Raised(ret.r)) => ret.r.val.points = 0
        /\ (LacksPicks(ArgEntry) /\ ~Raised(ret.r)) =>
              /\ ret.r.val.captain_name = "Unknown"
              /\ ret.r.val.captain_points = 0
              /\ ret.r.val.top_scorer_name = "Unknown"
              /\ ret.r.val.top_scorer_points = 0
              /\ ret.r.val.formation = "0-0-0"

\* C8 (what the code does): the same, for every entry except one whose record
\* for the current gameweek is the stored null, on which the call raises.
C8_ToleratedUnlessNull ==
    ret.op = "get_manager_details" =>
        IF StoredGw(ArgEntry) # <<>> /\ IsNone(StoredGw(ArgEntry)[1])
        THEN ret.r = Raise("AttributeError")
        ELSE /\ ~Raised(ret.r)
             /\ LacksEntryHistory(ArgEntry) => ret.r.val.points = 0
             /\ LacksPicks(ArgEntry) =>
                   /\ ret.r.val.captain_name = "Unknown"
                   /\ ret.r.val.captain_points = 0
                   /\ ret.r.val.top_scorer_name = "Unknown"
                   /\ ret.r.val.top_scorer_points = 0
                   /\ ret.r.val.formation = "0-0-0"

(***************************************************************************)
(* SpecMyTeam: get_my_team_analysis, create_my_team_page and               *)
(* calculate_gw_average applied to bounded league documents                *)
(***************************************************************************)
MaxManagers == 3    \* most entries in the league standings

EntryNames == {MyTeamName, "A"}

EntryTotals == {80, 100, 120}

\* what retrieve_mini_league_data can have attached as an entry's history
HistoryKinds == {"absent", "full", "short", "nocurrent", "null"}

\* and as its record of the current gameweek
GwKinds == {"absent", "full", "null"}

HistoryRecord(total, n) == [current |-> [g \in 1..n |-> [points |-> total \div 10]]]

WithHistory(entry, kind, gw) ==
    CASE kind = "absent" -> entry
      [] kind = "full" -> WithField(entry, "history", HistoryRecord(entry.total, gw))
      [] kind = "short" -> WithField(entry, "history", HistoryRecord(entry.total, gw - 1))
      [] kind = "nocurrent" -> WithField(entry, "history", [chips |-> <<>>])
      [] kind = "null" -> WithField(entry, "history", None)

WithGwKind(entry, kind, gw, picks) ==
    CASE kind = "absent" -> entry
      [] kind = "full" -> WithGw(entry, [k \in {ToString(gw)} |-> FullGwData(picks)])
      [] kind = "null" -> WithGw(entry, [k \in {ToString(gw)} |-> None])

\* entries at odd places get history kind hk, the others a full history
Standings(names, totals, hk, gk, gw, picks) ==
    [i \in 1..Len(names) |->
        WithGwKind(WithHistory(WithField(MkEntry(names[i], totals[i]), "entry", i),
                               IF i % 2 = 1 THEN hk ELSE "full", gw),
                   gk, gw, picks)]

\* pick lists of 0, 2 and 13 slots over players 1 (5 points), 4 (-1 point),
\* 5 (8 points) and the unknown 9
MyPickLists ==
    UNION {{SquadPicks(n, pattern, cap, mult) :
                pattern \in [1..2 -> {1, 4, 5, 9}],
                cap \in {0, 1, 13} \cap (0..n),
                mult \in {0, 2, 3}} : n \in {0, 2, 13}}

InitMyTeam ==
    /\ player_data = SquadDoc
    /\ current_gw = 2
    /\ \/ \E n \in 0..MaxManagers :
             \E names \in [1..n -> EntryNames], totals \in [1..n -> EntryTotals],
                hk \in HistoryKinds, gk \in GwKinds :
                 league_data = MkLeague(Standings(names, totals, hk, gk, current_gw,
                                                  SquadPicks(2, <<1, 5>>, 1, 2)))
       \/ \E picks \in MyPickLists :
             league_data = MkLeague(Standings(<<"A", MyTeamName, "A">>, <<100, 80, 120>>,
                                              "full", "full", current_gw, picks))
    /\ ret = NoCall
    /\ CollectIdle
    /\ RenderIdle

GetMyTeamAnalysis ==
    /\ ret = NoCall
    /\ ret' = [op |-> "get_my_team_analysis",
               r |-> get_my_team_analysis(league_data, current_gw, player_data)]
    /\ UNCHANGED <<player_data, league_data, current_gw, cvars, rvars>>

CreateMyTeamPage ==
    /\ ret = NoCall
    /\ ret' = [op |-> "create_my_team_page",
               r |-> create_my_team_page(league_data, current_gw, player_data)]
    /\ UNCHANGED <<player_data, league_data, current_gw, cvars, rvars>>

CalculateGwAverage ==
    /\ ret = NoCall
    /\ ret' = [op |-> "calculate_gw_average",
               r |-> calculate_gw_average(league_data, current_gw)]
    /\ UNCHANGED <<player_data, league_data, current_gw, cvars, rvars>>

NextMyTeam == GetMyTeamAnalysis \/ CreateMyTeamPage \/ CalculateGwAverage

SpecMyTeam == InitMyTeam /\ [][NextMyTeam]_vars

AllEntries == league_data.standings.results

SelfPlaces == {i \in 1..Len(AllEntries) : AllEntries[i].entry_name = MyTeamName}

\* C5: when no entry is named as the self team (an empty standings list
\* included), get_my_team_analysis returns None without raising, and
\* create_my_team_page returns the page with exactly the two fallback lines.
C5_NotFound ==
    SelfPlaces = {} =>
        /\ ret.op = "get_my_team_analysis" => ret.r = Return(None)
        /\ ret.op = "create_my_team_page" =>
              /\ ~Raised(ret.r)
              /\ ret.r.val.lines = <<"404error.log not found", "in this league.">>

\* the fallback page was made for a non-empty league without the self team in
\* which a history fetch had failed
C5_Witness ==
    /\ ret.op = "create_my_team_page"
    /\ SelfPlaces = {}
    /\ Len(AllEntries) >= 2
    /\ \E i \in 1..Len(AllEntries) :
          "history" \in DOMAIN AllEntries[i] /\ IsNone(AllEntries[i].history)
    /\ ret.r = Return(MkPage("My Team Analysis", NotFoundLines))

\* the located self entry: the first entry of the standings with the name
SelfPlace == CHOOSE k \in SelfPlaces : \A j \in SelfPlaces : k <= j

\* the 1-based index of entry k in the stable descending sort by total
RankOf(k) ==
    1 + Cardinality({j \in 1..Len(AllEntries) : AllEntries[j].total > AllEntries[k].total})
      + Cardinality({j \in 1..(k - 1) : AllEntries[j].total = AllEntries[k].total})

AnalysisReturned ==
    /\ ret.op = "get_my_team_analysis"
    /\ SelfPlaces # {}
    /\ ~Raised(ret.r)

\* C6 (as claimed): the returned position is the 1-based index, in the stable
\* descending sort of all entries by total, of the located self entry, the
\* entry whose total is returned as my_points.
C6_PositionOfLocatedEntry ==
    AnalysisReturned =>
        /\ ret.r.val.my_points = AllEntries[SelfPlace].total
        /\ ret.r.val.position = RankOf(SelfPlace)

\* C6 (what the code does): the position is that of the best-ranked entry that
\* bears the name, which is the located entry when the name occurs once.
C6_PositionByName ==
    AnalysisReturned =>
        /\ ret.r.val.my_points = AllEntries[SelfPlace].total
        /\ \E i \in SelfPlaces :
              /\ ret.r.val.position = RankOf(i)
              /\ \A j \in SelfPlaces : RankOf(i) <= RankOf(j)
        /\ Cardinality(SelfPlaces) = 1 => ret.r.val.position = RankOf(SelfPlace)

\* totals [100, 80, 120] with the self team second: position 3
C6_Example ==
    /\ ret.op = "get_my_team_analysis"
    /\ Len(AllEntries) = 3
    /\ [i \in 1..3 |-> AllEntries[i].total] = <<100, 80, 120>>
    /\ SelfPlaces = {2}
    /\ ~Raised(ret.r)
    /\ ret.r.val.position = 3

SelfPicks == PicksOf(AllEntries[SelfPlace])

\* best raw current-event score among the picks in a starting slot (0 when
\* there is none)
BestStarterScore(picks) ==
    LET starters == {i \in 1..Len(picks) : picks[i].position <= 11}
    IN  IF starters = {} THEN 0
        ELSE CHOOSE b \in {PointsOfId(picks[i].element) : i \in starters} :
                \A i \in starters : PointsOfId(picks[i].element) <= b

CaptainScore(picks) ==
    IF CaptainSlots(picks) = {} THEN 0
    ELSE LET c == CHOOSE i \in CaptainSlots(picks) : TRUE
         IN  PointsOfId(picks[c].element) * picks[c].multiplier

NullHistory == \E i \in 1..Len(AllEntries) :
    "history" \in DOMAIN AllEntries[i] /\ IsNone(AllEntries[i].history)

SelfHasPicks ==
    /\ ret.op = "get_my_team_analysis"
    /\ SelfPlaces # {}
    /\ HasPickList(AllEntries[SelfPlace])

\* C7 (as claimed): captain_success_rate = captain_points / (2 x best starting
\* raw score) x 100, and it is 0, without raising, whenever that denominator
\* is 0.  (A raise caused by a null history is not held against the claim.)
C7_RateAsClaimed ==
    SelfHasPicks =>
        /\ ~NullHistory => ~Raised(ret.r)
        /\ ~Raised(ret.r) =>
              IF 2 * BestStarterScore(SelfPicks) = 0
              THEN ret.r.val.captain_success_rate = Zero
              ELSE IsQuotient(ret.r.val.captain_success_rate,
                              CaptainScore(SelfPicks) * 100,
                              2 * BestStarterScore(SelfPicks))

\* C7 (amended): the rate is that quotient when the denominator is positive
\* and 0 when it is 0 or negative; the call raises only on a null history.
C7_SuccessRate ==
    SelfHasPicks =>
        /\ Raised(ret.r) <=> NullHistory
        /\ ~Raised(ret.r) =>
              IF 2 * BestStarterScore(SelfPicks) > 0
              THEN IsQuotient(ret.r.val.captain_success_rate,
                              CaptainScore(SelfPicks) * 100,
                              2 * BestStarterScore(SelfPicks))
              ELSE ret.r.val.captain_success_rate = Zero

\* captain points 10 against a best starting score of 8: 62.5 per cent
C7_Witness ==
    /\ SelfHasPicks
    /\ ~Raised(ret.r)
    /\ CaptainScore(SelfPicks) = 10
    /\ BestStarterScore(SelfPicks) = 8
    /\ ret.r.val.captain_points = 10
    /\ ret.r.val.best_possible_captain_points = 16
    /\ ret.r.val.captain_success_rate = [num |-> 125, den |-> 2]

\* a starting line-up whose best score is negative
C7_NegativeBest ==
    /\ SelfHasPicks
    /\ ~Raised(ret.r)
    /\ BestStarterScore(SelfPicks) < 0

(***************************************************************************)
(* data_setup.py: the collection run                                       *)
(***************************************************************************)
\* what a requests.get can do: answer 200, answer another status (fetch_data
\* prints and returns None), or raise a transport error, which nothing catches
Outcomes == {"ok", "status", "error"}

\* fetch_data: the value returned for an answer, given the body the API serves
fetch_data(out, body) == IF out = "ok" THEN body ELSE None

\* fetch_fixtures, from what fetch_data returned
fetch_fixtures(all_fixtures, gw) ==
    IF IsNone(all_fixtures) \/ Len(all_fixtures) = 0 THEN <<>>
    ELSE SelectSeq(all_fixtures, LAMBDA f : f["event"] = gw)

\* get_current_gameweek: <<id>> of the first event flagged current, <<>> for None
get_current_gameweek(bd) ==
    LET events == DictGet(bd, "events", <<>>)
        flagged == SelectSeq(events, LAMBDA event : DictGet(event, "is_current", FALSE))
    IN  IF Len(flagged) = 0 THEN <<>> ELSE <<flagged[1]["id"]>>

\* league_data['standings']['results'][i][key] = value
SetEntryField(ld, i, key, value) ==
    [ld EXCEPT !["standings"]["results"][i] = WithField(@, key, value)]

\* the bug of storing the picks under the key of the next gameweek
gw_str_of_next(gameweek) == ToString(gameweek + 1)

\* retrieve_mini_league_data, line 70: gw_str = str(gameweek)
gw_str(gameweek) == ToString(gameweek)

\* the bug of saving whatever retrieve_mini_league_data returned
after_retrieve_unchecked(mld) == "save_player_data"

\* main, lines 109-111: `if not mini_league_data: return`
after_retrieve(mld) == IF IsNone(mld) THEN "returned" ELSE "save_player_data"

Called(step, team, out) == [step |-> step, team |-> team, out |-> out]

\* main, lines 91-99
FetchBootstrap ==
    /\ c_pc = "fetch_bootstrap"
    /\ \E out \in Outcomes :
          LET bd == fetch_data(out, upstream["bootstrap"])
              gw == IF IsNone(bd) THEN <<>> ELSE get_current_gameweek(bd)
          IN  /\ c_log' = Append(c_log, Called("bootstrap", 0, out))
              /\ IF out = "error"
                 THEN c_pc' = "crashed" /\ UNCHANGED <<bootstrap_data, c_gw>>
                 ELSE /\ bootstrap_data' = bd
                      /\ IF IsNone(bd) \/ Len(gw) = 0 \/ gw = <<0>>
                         THEN c_pc' = "returned" /\ UNCHANGED c_gw
                         ELSE c_pc' = "fetch_fixtures" /\ c_gw' = gw[1]
    /\ UNCHANGED <<c_i, upstream, mini_league, files>>
    /\ UNCHANGED <<player_data, league_data, current_gw, ret, rvars>>

\* main, lines 102-105
FetchFixtures ==
    /\ c_pc = "fetch_fixtures"
    /\ \E out \in Outcomes :
          /\ c_log' = Append(c_log, Called("fixtures", 0, out))
          /\ IF out = "error"
             THEN c_pc' = "crashed" /\ UNCHANGED bootstrap_data
             ELSE /\ bootstrap_data' =
                        WithField(bootstrap_data, "fixtures_next_gw",
                                  fetch_fixtures(fetch_data(out, upstream["fixtures"]),
                                                 c_gw + 1))
                  /\ c_pc' = "fetch_league"
    /\ UNCHANGED <<c_i, c_gw, upstream, mini_league, files>>
    /\ UNCHANGED <<player_data, league_data, current_gw, ret, rvars>>

\* where retrieve_mini_league_data goes after entry i - 1: the fetches of entry i,
\* or back in main with the assembled document
NextEntry(ld, i) ==
    IF i <= Len(ld["standings"]["results"]) THEN "fetch_manager_data"
    ELSE after_retrieve(ld)

\* retrieve_mini_league_data, lines 60-62, and main's check of its result
FetchLeague ==
    /\ c_pc = "fetch_league"
    /\ \E out \in Outcomes :
          LET ld == fetch_data(out, upstream["league"])
          IN  /\ c_log' = Append(c_log, Called("league", 0, out))
              /\ IF out = "error"
                 THEN c_pc' = "crashed" /\ UNCHANGED <<mini_league, c_i>>
                 ELSE IF IsNone(ld) \/ "standings" \notin DOMAIN ld
                 THEN /\ mini_league' = None
                      /\ c_pc' = after_retrieve(None)
                      /\ UNCHANGED c_i
                 ELSE /\ mini_league' = ld
                      /\ c_i' = 1
                      /\ c_pc' = NextEntry(ld, 1)
    /\ UNCHANGED <<c_gw, upstream, bootstrap_data, files>>
    /\ UNCHANGED <<player_data, league_data, current_gw, ret, rvars>>

TeamId == mini_league["standings"]["results"][c_i]["entry"]

\* one of the three fetches of lines 66-68: entry[key] = fetch_...(team_id)
FetchForEntry(at, step, key, body, then) ==
    /\ c_pc = at
    /\ \E out \in Outcomes :
          /\ c_log' = Append(c_log, Called(step, TeamId, out))
          /\ IF out = "error"
             THEN c_pc' = "crashed" /\ UNCHANGED mini_league
             ELSE /\ mini_league' = SetEntryField(mini_league, c_i, key,
                                                  fetch_data(out, body))
                  /\ c_pc' = then
    /\ UNCHANGED <<c_i, c_gw, upstream, bootstrap_data, files>>
    /\ UNCHANGED <<player_data, league_data, current_gw, ret, rvars>>

FetchManagerData ==
    FetchForEntry("fetch_manager_data", "manager_data", "manager_details",
                  upstream["profile"], "fetch_manager_transfers")

FetchManagerTransfers ==
    FetchForEntry("fetch_manager_transfers", "manager_transfers", "transfers",
                  upstream["transfers"], "fetch_manager_history")

FetchManagerHistory ==
    FetchForEntry("fetch_manager_history", "manager_history", "history",
                  upstream["history"], "fetch_gameweek_data")

\* lines 70-72, and the loop's next round or the return to main
FetchGameweekData ==
    /\ c_pc = "fetch_gameweek_data"
    /\ \E out \in Outcomes :
          LET fetched == fetch_data(out, upstream["picks"])
              ld == SetEntryField(mini_league, c_i, "gameweek_data",
                                  [k \in {gw_str(c_gw)} |-> fetched])
          IN  /\ c_log' = Append(c_log, Called("gameweek_data", TeamId, out))
              /\ IF out = "error"
                 THEN c_pc' = "crashed" /\ UNCHANGED <<mini_league, c_i>>
                 ELSE /\ mini_league' = ld
                      /\ c_i' = c_i + 1
                      /\ c_pc' = NextEntry(ld, c_i + 1)
    /\ UNCHANGED <<c_gw, upstream, bootstrap_data, files>>
    /\ UNCHANGED <<player_data, league_data, current_gw, ret, rvars>>

\* main, line 117
SavePlayerData ==
    /\ c_pc = "save_player_data"
    /\ files' = [files EXCEPT !["player_data_json"] = bootstrap_data]
    /\ c_pc' = "save_league_data"
    /\ UNCHANGED <<c_i, c_gw, c_log, upstream, bootstrap_data, mini_league>>
    /\ UNCHANGED <<player_data, league_data, current_gw, ret, rvars>>

\* main, line 118, and the return
SaveLeagueData ==
    /\ c_pc = "save_league_data"
    /\ files' = [files EXCEPT !["league_data_json"] = mini_league]
    /\ c_pc' = "done"
    /\ UNCHANGED <<c_i, c_gw, c_log, upstream, bootstrap_data, mini_league>>
    /\ UNCHANGED <<player_data, league_data, current_gw, ret, rvars>>

(***************************************************************************)
(* SpecCollect: one collection run against a bounded upstream              *)
(***************************************************************************)
MaxLeagueEntries == 2   \* most entries the upstream league standings hold

\* the events of the upstream bootstrap: ids 1 and 12, event cur (if any) current
UpstreamEvents(cur) == <<MkEvent(1, cur = 1), MkEvent(12, cur = 12)>>

UpstreamFixtures ==
    <<[event |-> 2, team_h |-> 1, team_a |-> 2], [event |-> 13, team_h |-> 2, team_a |-> 1],
      [event |-> 2, team_h |-> 2, team_a |-> 1]>>

UpstreamLeague(n) ==
    MkLeague([i \in 1..n |-> WithField(MkEntry("M" \o ToString(i), 100 - i), "entry", i)])

Upstream(cur, n) ==
    [bootstrap |-> MkBootstrap(UpstreamEvents(cur), SquadPlayers, <<>>, <<>>),
     fixtures |-> UpstreamFixtures,
     league |-> UpstreamLeague(n),
     profile |-> [player_first_name |-> "x"],
     transfers |-> <<>>,
     history |-> HistoryRecord(100, 12),
     picks |-> FullGwData(SquadPicks(2, <<1, 5>>, 1, 2))]

InitCollect ==
    /\ player_data = EmptyDict
    /\ league_data = EmptyDict
    /\ current_gw = 0
    /\ ret = NoCall
    /\ c_pc = "fetch_bootstrap"
    /\ c_i = 0
    /\ c_gw = 0
    /\ c_log = <<>>
    /\ \E cur \in {0, 1, 12}, n \in 0..MaxLeagueEntries : upstream = Upstream(cur, n)
    /\ bootstrap_data = None
    /\ mini_league = None
    /\ files = OldFiles
    /\ RenderIdle

NextCollect ==
    \/ FetchBootstrap
    \/ FetchFixtures
    \/ FetchLeague
    \/ FetchManagerData
    \/ FetchManagerTransfers
    \/ FetchManagerHistory
    \/ FetchGameweekData
    \/ SavePlayerData
    \/ SaveLeagueData

SpecCollect == InitCollect /\ [][NextCollect]_vars

Failed(call) == call.out # "ok"

\* the failures that end the run: a transport error anywhere, or a non-200
\* answer to the bootstrap or the league-standings fetch
Fatal(call) ==
    \/ call.out = "error"
    \/ call.out = "status" /\ call.step \in {"bootstrap", "league"}

\* C9 (as claimed): a failed network call at any fetch step short-circuits the
\* run: it is the last call made, and neither document is persisted.
C9_AnyFailureShortCircuits ==
    \A i \in 1..Len(c_log) :
        Failed(c_log[i]) => i = Len(c_log) /\ files = OldFiles

\* C9 (amended): a transport error at any step, or a non-200 answer to the
\* bootstrap or league-standings fetch, short-circuits the run (it is the last
\* call, the run has ended, neither document is persisted); after a non-200
\* answer to the fixtures fetch or to a per-manager fetch the run goes on, and
\* a run that gets to its end has persisted both documents.
C9_ShortCircuit ==
    /\ \A i \in 1..Len(c_log) :
          /\ Fatal(c_log[i]) =>
                /\ i = Len(c_log)
                /\ c_pc \in {"crashed", "returned"}
                /\ files = OldFiles
          /\ (Failed(c_log[i]) /\ ~Fatal(c_log[i])) => c_pc \notin {"crashed", "returned"}
                                                       \/ i < Len(c_log)
    /\ c_pc = "done" =>
          /\ files["player_data_json"] = bootstrap_data
          /\ files["league_data_json"] = mini_league
          /\ \A i \in 1..Len(c_log) : ~Fatal(c_log[i])

\* a run that was answered non-200 on the fixtures fetch and on a picks fetch
\* has persisted both documents, with [] and null in their places
C9_Witness ==
    /\ c_pc = "done"
    /\ \E i \in 1..Len(c_log) : c_log[i] = Called("fixtures", 0, "status")
    /\ \E i \in 1..Len(c_log) : c_log[i] = Called("gameweek_data", 1, "status")
    /\ files["player_data_json"]["fixtures_next_gw"] = <<>>
    /\ IsNone(files["league_data_json"]["standings"]["results"][1]["gameweek_data"]
                    [ToString(c_gw)])

\* a run ended by a non-200 answer to the league-standings fetch
C9_LeagueFailure ==
    /\ c_pc = "returned"
    /\ Len(c_log) = 3
    /\ c_log[3] = Called("league", 0, "status")
    /\ files = OldFiles

(***************************************************************************)
(* x2.main: the render process.  Ctrl+C (KeyboardInterrupt) can arrive at  *)
(* any statement of the try block; a call on the display can raise.  The   *)
(* two except clauses have the same body: clear, sleep, sys.exit.          *)
(***************************************************************************)
Missing == [t |-> "missing"]

EnterHandler(exc) ==
    /\ pc' = "handler_clear"
    /\ cause' = [exc |-> exc, at |-> pc]
    /\ h_calls' = <<>>

\* FPLAnalyzer.load_data, with what it has assigned when it raises
load_data(fs) ==
    IF fs["player_data_json"] = Missing
    THEN [r |-> Raise("FileNotFoundError"), player_data |-> None, league_data |-> None,
          current_gw |-> None]
    ELSE IF fs["league_data_json"] = Missing
    THEN [r |-> Raise("FileNotFoundError"), player_data |-> fs["player_data_json"],
          league_data |-> None, current_gw |-> None]
    ELSE IF Len(current_gw_event(fs["player_data_json"])) = 0
    THEN [r |-> Raise("ValueError"), player_data |-> fs["player_data_json"],
          league_data |-> fs["league_data_json"], current_gw |-> None]
    ELSE [r |-> Return(None), player_data |-> fs["player_data_json"],
          league_data |-> fs["league_data_json"],
          current_gw |-> current_gw_event(fs["player_data_json"])[1]["id"]]

\* lines 510-512
LoadData ==
    /\ pc = "load_data"
    /\ \/ /\ EnterHandler("KeyboardInterrupt")
          /\ UNCHANGED <<player_data, league_data, current_gw>>
       \/ LET loaded == load_data(files)
          IN  /\ player_data' = loaded.player_data
              /\ league_data' = loaded.league_data
              /\ current_gw' = loaded.current_gw
              /\ IF Raised(loaded.r)
                 THEN EnterHandler(loaded.r.exc)
                 ELSE pc' = "init_display" /\ UNCHANGED <<cause, h_calls>>
    /\ UNCHANGED <<ret, cvars, fpl_display, pages, page_i, epd_last, shown>>

\* lines 514-515: fpl_display is bound only when FPLDisplay() returns
InitDisplay ==
    /\ pc = "init_display"
    /\ \/ /\ \E exc \in {"KeyboardInterrupt", "Exception"} : EnterHandler(exc)
          /\ UNCHANGED <<fpl_display, epd_last>>
       \/ /\ fpl_display' = "bound"
          /\ epd_last' = "init"
          /\ pc' = "build_pages"
          /\ UNCHANGED <<cause, h_calls>>
    /\ UNCHANGED <<player_data, league_data, current_gw, ret, cvars, pages, page_i, shown>>

\* lines 517-546, and the entry into the loop
BuildPages ==
    /\ pc = "build_pages"
    /\ \/ /\ EnterHandler("KeyboardInterrupt")
          /\ UNCHANGED <<pages, page_i>>
       \/ LET built == build_pages(player_data, league_data, current_gw)
          IN  IF Raised(built)
              THEN EnterHandler(built.exc) /\ UNCHANGED <<pages, page_i>>
              ELSE /\ pages' = built.val
                   /\ page_i' = 1
                   /\ pc' = "loop_clear"
                   /\ UNCHANGED <<cause, h_calls>>
    /\ UNCHANGED <<player_data, league_data, current_gw, ret, cvars, fpl_display,
                   epd_last, shown>>

\* the bug of a single pass over the pages: main returns after the last one
after_dwell_once(i, n) ==
    IF i < n THEN [pc |-> "loop_clear", page_i |-> i + 1]
    ELSE [pc |-> "exited", page_i |-> i]

\* lines 549-550: the next page of the for loop, or the next round of while True
after_dwell(i, n) ==
    IF i < n THEN [pc |-> "loop_clear", page_i |-> i + 1]
    ELSE [pc |-> "loop_clear", page_i |-> 1]

\* line 551
LoopClear ==
    /\ pc = "loop_clear"
    /\ \/ /\ \E exc \in {"KeyboardInterrupt", "Exception"} : EnterHandler(exc)
          /\ UNCHANGED <<epd_last, shown>>
       \/ /\ epd_last' = "Clear"
          /\ shown' = "blank"
          /\ pc' = "loop_display"
          /\ UNCHANGED <<cause, h_calls>>
    /\ UNCHANGED <<player_data, league_data, current_gw, ret, cvars, fpl_display, pages,
                   page_i>>

\* line 552
LoopDisplay ==
    /\ pc = "loop_display"
    /\ \/ /\ \E exc \in {"KeyboardInterrupt", "Exception"} : EnterHandler(exc)
          /\ UNCHANGED <<epd_last, shown>>
       \/ /\ epd_last' = "display"
          /\ shown' = ToString(page_i)
          /\ pc' = "loop_sleep"
          /\ UNCHANGED <<cause, h_calls>>
    /\ UNCHANGED <<player_data, league_data, current_gw, ret, cvars, fpl_display, pages,
                   page_i>>

\* line 553
LoopSleep ==
    /\ pc = "loop_sleep"
    /\ \/ /\ EnterHandler("KeyboardInterrupt")
          /\ UNCHANGED page_i
       \/ /\ pc' = after_dwell(page_i, Len(pages)).pc
          /\ page_i' = after_dwell(page_i, Len(pages)).page_i
          /\ UNCHANGED <<cause, h_calls>>
    /\ UNCHANGED <<player_data, league_data, current_gw, ret, cvars, fpl_display, pages,
                   epd_last, shown>>

\* lines 557 and 564: fpl_display.clear().  The name is unbound when the
\* exception arose before FPLDisplay() returned, and the handler itself raises;
\* the call can fail or be interrupted as it can in the loop, and an exception
\* raised inside an except clause is caught by no one: the process ends there
HandlerClear ==
    /\ pc = "handler_clear"
    /\ IF fpl_display = "unbound"
       THEN pc' = "crashed" /\ UNCHANGED <<epd_last, shown, h_calls>>
       ELSE \/ pc' = "crashed" /\ UNCHANGED <<epd_last, shown, h_calls>>
            \/ /\ epd_last' = "Clear"
               /\ shown' = "blank"
               /\ h_calls' = Append(h_calls, "Clear")
               /\ pc' = "handler_sleep"
    /\ UNCHANGED <<player_data, league_data, current_gw, ret, cvars, fpl_display, pages,
                   page_i, cause>>

\* lines 558 and 565
HandlerSleep ==
    /\ pc = "handler_sleep"
    /\ \/ pc' = "crashed" /\ UNCHANGED <<epd_last, h_calls>>
       \/ /\ epd_last' = "sleep"
          /\ h_calls' = Append(h_calls, "sleep")
          /\ pc' = "handler_exit"
    /\ UNCHANGED <<player_data, league_data, current_gw, ret, cvars, fpl_display, pages,
                   page_i, shown, cause>>

\* lines 559 and 566
HandlerExit ==
    /\ pc = "handler_exit"
    /\ pc' = "exited"
    /\ UNCHANGED <<player_data, league_data, current_gw, ret, cvars, fpl_display, pages,
                   page_i, epd_last, shown, cause, h_calls>>

(***************************************************************************)
(* SpecRender: one run of x2.main over bounded persisted documents         *)
(***************************************************************************)
MaxRenderManagers == 2  \* most entries in the persisted league document

MaxRenderFixtures == 4  \* most fixtures in the persisted bootstrap document

RenderTeams == <<MkTeam(1, 2, 2, 3, 1, 2, 0), MkTeam(2, 1, 2, 1, 1, 4, 2)>>

RenderFixtures(k) ==
    SubSeq(<<[team_h |-> 1, team_a |-> 2], [team_h |-> 2, team_a |-> 1],
             [team_h |-> 1, team_a |-> 3], [team_h |-> 2, team_a |-> 1]>>, 1, Min(k, 4))

RenderPlayerDocs ==
    {MkBootstrap(<<MkEvent(6, FALSE), MkEvent(7, TRUE)>>, SquadPlayers, RenderTeams,
                 RenderFixtures(k)) : k \in 0..MaxRenderFixtures}
    \cup {MkBootstrap(<<MkEvent(6, FALSE), MkEvent(7, FALSE)>>, SquadPlayers, RenderTeams,
                      <<>>),
          Missing}

RenderLeagueDocs ==
    UNION {{MkLeague(Standings(names, [i \in 1..n |-> 100 - 10 * i], "full", gk, 7,
                               SquadPicks(2, <<1, 5>>, 1, 2))) :
                names \in [1..n -> EntryNames], gk \in GwKinds} :
           n \in 0..MaxRenderManagers}
    \cup {Missing}

InitRender ==
    /\ player_data = None
    /\ league_data = None
    /\ current_gw = None
    /\ ret = NoCall
    /\ c_pc = "idle"
    /\ c_i = 0
    /\ c_gw = 0
    /\ c_log = <<>>
    /\ upstream = EmptyDict
    /\ bootstrap_data = None
    /\ mini_league = None
    /\ \E pd \in RenderPlayerDocs, ld \in RenderLeagueDocs :
          files = [player_data_json |-> pd, league_data_json |-> ld]
    /\ pc = "load_data"
    /\ fpl_display = "unbound"
    /\ pages = <<>>
    /\ page_i = 0
    /\ epd_last = "none"
    /\ shown = "unknown"
    /\ cause = NoCause
    /\ h_calls = <<>>

NextRender ==
    \/ LoadData
    \/ InitDisplay
    \/ BuildPages
    \/ LoopClear
    \/ LoopDisplay
    \/ LoopSleep
    \/ HandlerClear
    \/ HandlerSleep
    \/ HandlerExit

\* the process is sequential: it takes its next step whenever it has one
SpecRender == InitRender /\ [][NextRender]_vars /\ WF_vars(NextRender)

InLoop == pc \in {"loop_clear", "loop_display", "loop_sleep"}

\* a handler is running, or has run, for something that arose inside the loop
FromLoop == cause.at \in {"loop_clear", "loop_display", "loop_sleep"}

\* the loop of C10 on its own: a step taken inside the render loop stays in
\* the loop or enters a handler for what was raised at that step.
LoopLeftOnlyByException ==
    [][InLoop =>
          \/ InLoop'
          \/ /\ pc' = "handler_clear"
             /\ cause'.at = pc
             /\ cause'.exc \in {"KeyboardInterrupt", "Exception"}]_vars

\* clear comes first, then sleep, then the exit; "crashed" is the process
\* ended by an exception that no clause caught
HandlerOrder ==
    FromLoop =>
        /\ pc \in {"handler_clear", "handler_sleep", "handler_exit", "exited"}
        /\ pc = "handler_clear" => h_calls = <<>>
        /\ pc = "handler_sleep" => h_calls = <<"Clear">> /\ shown = "blank"
        /\ pc = "handler_exit" => h_calls = <<"Clear", "sleep">> /\ epd_last = "sleep"
        /\ pc = "exited" => h_calls = <<"Clear", "sleep">> /\ epd_last = "sleep"

\* C10: once x2.main is in the render loop the loop never exits on its own; it
\* is left only by an interrupt or an exception raised inside it, and in both
\* cases the display is cleared, then put to sleep, and only then the process
\* terminates: clear precedes sleep, sleep precedes exit, no page is displayed
\* after the handler starts, and the process does terminate.
C10_RenderLoopExit ==
    /\ LoopLeftOnlyByException
    /\ []HandlerOrder
    /\ [][FromLoop => (shown' = shown \/ shown' = "blank")]_vars
    /\ (FromLoop /\ pc = "handler_clear") ~> (pc = "exited")

\* what does hold of the process when it ends after the loop: it has exited
\* through the whole sequence, or an exception of the handler ended it early
C10_ExitOrUncaught ==
    /\ FromLoop /\ pc = "exited" => h_calls = <<"Clear", "sleep">> /\ epd_last = "sleep"
    /\ FromLoop /\ pc = "crashed" => h_calls \in {<<>>, <<"Clear">>} /\ epd_last # "sleep"
    /\ FromLoop /\ pc \notin {"exited", "crashed"} =>
           pc \in {"handler_clear", "handler_sleep", "handler_exit"}

(***************************************************************************)
(* Ids that are in no lookup table, on the pages of one run of x2.main     *)
(***************************************************************************)
PagesBuilt == pages # <<>>

KnownPlayerNames == {player_data["elements"][i]["web_name"] :
                        i \in 1..Len(player_data["elements"])}

KnownTeamNames == {player_data["teams"][i]["name"] : i \in 1..Len(player_data["teams"])}

\* the labels of the three player references of the insights page (lines 301-303)
InsightsLabels == {pages[1].lines[3][2], pages[1].lines[4][2], pages[1].lines[5][2]}

\* the fixture pages are the pages after the self-analysis page
FixturePages ==
    SubSeq(pages, Len(get_mini_league_standings(league_data)) + 7, Len(pages))

\* the fixtures on the fixture pages, four lines each
RenderedFixtures ==
    Len(Flatten([k \in 1..Len(FixturePages) |-> FixturePages[k].lines])) \div 4

FixturesWithKnownTeams ==
    SelectSeq(player_data["fixtures_next_gw"],
              LAMBDA f : f["team_h"] \in DOMAIN teams_by_id(player_data)
                         /\ f["team_a"] \in DOMAIN teams_by_id(player_data))

\* C11: every player or team id referenced by a pick, a fixture, a top-N
\* entry or the current event's summary that is in no lookup table is rendered
\* as a placeholder ('Unknown' for players, '?' for teams); no such reference
\* raises (a failed lookup would be a KeyError), and no referencing record,
\* such as a fixture with an unknown team, is dropped from the output.
C11_UnknownIdsAsPlaceholders ==
    /\ cause.exc # "KeyError"
    /\ PagesBuilt =>
          /\ InsightsLabels \subseteq KnownPlayerNames \cup {"Unknown"}
          /\ RenderedFixtures = Len(player_data["fixtures_next_gw"])

\* what the pages do carry: the summary's unknown player is labelled "None",
\* and only the fixtures with both teams known are on the fixture pages
C11_AsRendered ==
    /\ cause.exc # "KeyError"
    /\ PagesBuilt =>
          /\ InsightsLabels \subseteq KnownPlayerNames \cup {"None"}
          /\ RenderedFixtures = Len(FixturesWithKnownTeams)

\* a fixture with an unknown away team has been left off the fixture pages
C11_FixtureDropped ==
    /\ PagesBuilt
    /\ Len(player_data["fixtures_next_gw"]) = 3
    /\ RenderedFixtures = 2

(***************************************************************************)
(* The page list of x2.main and its cycle                                  *)
(***************************************************************************)
RenderStandings == get_mini_league_standings(league_data)

\* the positions a page can have in the page list
RenderPageIndices == 1..(5 + MaxRenderManagers + 1 + (MaxRenderFixtures + 1) \div 2)

\* insights, chips, form, transfers, team strength, the managers in
\* standings order, self-analysis, then the fixture pages
InFixedOrder(pgs, pd, ld, gw) ==
    LET standings == get_mini_league_standings(ld)
        n == Len(standings)
        fixture_pages == create_fixtures_pages(pd, gw).val
    IN  /\ Len(pgs) = 5 + n + 1 + Len(fixture_pages)
        /\ pgs[1] = create_basic_insights_page(pd, gw)
        /\ pgs[2] = create_chips_page(pd)
        /\ pgs[3] = create_form_page(pd)
        /\ pgs[4] = create_transfers_page(pd)
        /\ pgs[5] = create_team_strength_page(pd)
        /\ \A i \in 1..n :
              pgs[5 + i] = create_manager_page(get_manager_details(standings[i], gw, pd).val)
        /\ pgs[5 + n + 1] = create_my_team_page(ld, gw, pd).val
        /\ \A k \in 1..Len(fixture_pages) : pgs[5 + n + 1 + k] = fixture_pages[k]

\* the page list is assigned by the step that enters the loop, in the fixed
\* order, and never again; the documents it was built from stay as loaded
PagesBuiltOnce ==
    [][/\ pages' # pages =>
            /\ pc = "build_pages" /\ pc' = "loop_clear" /\ pages = <<>>
            /\ InFixedOrder(pages', player_data, league_data, current_gw)
       /\ PagesBuilt =>
            /\ pages' = pages
            /\ <<player_data, league_data, current_gw>>' =
                   <<player_data, league_data, current_gw>>]_vars

\* the page displayed is the page of the loop's position, displayed on a
\* display that the call just before has cleared
DisplayAfterClear ==
    [][(shown' # shown /\ shown' # "blank") =>
          /\ pc = "loop_display"
          /\ epd_last = "Clear"
          /\ shown = "blank"
          /\ shown' = ToString(page_i)]_vars

\* the dwell on a displayed page ends in a handler or moves the position to
\* the next page, and from the last page to the first
RoundRobin ==
    [][pc = "loop_sleep" =>
          \/ pc' = "handler_clear"
          \/ /\ pc' = "loop_clear"
             /\ shown = ToString(page_i)
             /\ page_i' = IF page_i = Len(pages) THEN 1 ELSE page_i + 1]_vars

PositionOnlyMovesAfterDwell ==
    [][(InLoop /\ page_i' # page_i) => (pc = "loop_sleep" /\ pc' = "loop_clear")]_vars

\* C12: x2.main builds the page list exactly once, in the order insights,
\* chips, form, transfers, team strength, one page per manager in standings
\* order, self-analysis, fixture pages; the loop displays the pages in that
\* order round-robin (after the last page comes the first), every display_page
\* call comes right after a clear, and every page is displayed again and again
\* for as long as no interrupt or exception takes the process out of the loop.
C12_PagesCycle ==
    /\ PagesBuiltOnce
    /\ DisplayAfterClear
    /\ RoundRobin
    /\ PositionOnlyMovesAfterDwell
    /\ \A i \in RenderPageIndices :
          (InLoop /\ i <= Len(pages)) ~> (shown = ToString(i) \/ pc = "handler_clear")

\* the loop is back at the first page with the last page still on the display
C12_Witness ==
    /\ pc = "loop_clear"
    /\ page_i = 1
    /\ Len(pages) = 10
    /\ shown = ToString(Len(pages))
    /\ epd_last = "display"

(***************************************************************************)
(* No current event: the handlers of x2.main and the display they use      *)
(***************************************************************************)
NoCurrentEvent == cause.exc = "ValueError"

HandlerStarted == pc \in {"handler_clear", "handler_sleep", "handler_exit", "exited", "crashed"}

\* C13: when no event of the bootstrap document is flagged current, load_data
\* raises the data-integrity error before any page is built or displayed, and
\* the handler of x2.main then runs to completion without itself raising: in
\* every state in which a handler can start, failures of load_data and of the
\* display initialisation included, the display object it uses exists.
C13_HandlerHasDisplay ==
    /\ NoCurrentEvent => cause.at = "load_data" /\ pages = <<>> /\ shown = "unknown"
    /\ pc = "handler_clear" => fpl_display = "bound"

\* what does hold: the error is raised before any page is built or displayed,
\* and the handler that starts for it has no display object and ends the
\* process by an exception of its own, with no call made on the display
C13_TerminalWithoutDisplay ==
    /\ NoCurrentEvent =>
          /\ cause.at = "load_data"
          /\ pages = <<>> /\ shown = "unknown" /\ epd_last = "none"
          /\ fpl_display = "unbound"
          /\ pc \in {"handler_clear", "crashed"}
          /\ h_calls = <<>>
    /\ HandlerStarted /\ cause.at \in {"load_data", "init_display"} =>
          fpl_display = "unbound" /\ pc \in {"handler_clear", "crashed"}
    /\ HandlerStarted /\ cause.at \notin {"load_data", "init_display"} =>
          fpl_display = "bound"

\* the run over a document with no current event has ended in the handler
C13_HandlerRaised ==
    /\ NoCurrentEvent
    /\ pc = "crashed"
    /\ h_calls = <<>>

(***************************************************************************)
(* The two persisted documents over one collection run                     *)
(***************************************************************************)
RunEnded == c_pc \in {"returned", "crashed", "done"}

CallFailed(step) == \E i \in 1..Len(c_log) : c_log[i].step = step /\ Failed(c_log[i])

\* the bootstrap document was fetched and none of its events is flagged current
NoEventFlagged ==
    /\ Len(c_log) >= 1
    /\ c_log[1] = Called("bootstrap", 0, "ok")
    /\ get_current_gameweek(upstream["bootstrap"]) = <<>>

TransportError == \E i \in 1..Len(c_log) : c_log[i].out = "error"

BothOverwritten ==
    /\ files["player_data_json"] = bootstrap_data
    /\ files["league_data_json"] = mini_league
    /\ files["player_data_json"] # Stale
    /\ files["league_data_json"] # Stale

\* the gameweek the analysis resolves from the written bootstrap document
ResolvedGw == load_data(files).current_gw

\* every written entry holds its picks under str() of the resolved gameweek,
\* where the lookup of get_manager_details finds them
PicksUnderResolvedGw ==
    LET results == files["league_data_json"]["standings"]["results"]
    IN  /\ ~Raised(load_data(files).r)
        /\ ResolvedGw = c_gw
        /\ \A i \in 1..Len(results) :
              /\ DOMAIN results[i]["gameweek_data"] = {ToString(ResolvedGw)}
              /\ DictGet(results[i]["gameweek_data"], ToString(ResolvedGw), EmptyDict)
                    \in {None, upstream["picks"]}

\* C14 (as claimed): a run that has ended left both documents untouched when
\* the bootstrap fetch failed, no event is flagged current, or the league
\* standings fetch failed, and has otherwise overwritten both.
C14_OverwrittenUnlessThreeFailures ==
    RunEnded =>
        IF CallFailed("bootstrap") \/ NoEventFlagged \/ CallFailed("league")
        THEN files = OldFiles
        ELSE BothOverwritten

\* C14 (amended): a collection run leaves both documents untouched or
\* overwrites both, the bootstrap document first.  A run ended by a failed
\* bootstrap fetch, by no event flagged current, by a failed league standings
\* fetch, or by a transport error raised at any fetch (the fixtures and the
\* per-manager fetches included) has written nothing; every other run that
\* ends has overwritten both, and the league entries' picks are stored under
\* the string form of the gameweek id that the analysis resolves from the
\* written bootstrap document.
C14_BothOrNeither ==
    /\ \/ files = OldFiles
       \/ /\ c_pc = "save_league_data"
          /\ files = [player_data_json |-> bootstrap_data, league_data_json |-> Stale]
       \/ c_pc = "done" /\ BothOverwritten
    /\ RunEnded =>
          IF CallFailed("bootstrap") \/ NoEventFlagged \/ CallFailed("league")
             \/ TransportError
          THEN files = OldFiles /\ c_pc # "done"
          ELSE c_pc = "done" /\ BothOverwritten /\ PicksUnderResolvedGw

\* a run over a league of two entries has overwritten both documents
C14_Witness ==
    /\ c_pc = "done"
    /\ BothOverwritten
    /\ Len(files["league_data_json"]["standings"]["results"]) = 2
    /\ c_gw = 12
    /\ "12" \in DOMAIN files["league_data_json"]["standings"]["results"][2]["gameweek_data"]
    /\ \A i \in 1..Len(c_log) : c_log[i].out = "ok"

\* a run ended by a transport error at a per-manager fetch has written nothing
C14_CrashedAfterChecks ==
    /\ c_pc = "crashed"
    /\ ~CallFailed("bootstrap") /\ ~CallFailed("league")
    /\ CallFailed("manager_history")
    /\ files = OldFiles

====
